---- MODULE Spec2Model ----
(***************************************************************************)
(* Model of create_linear_tickets.py: a sequential batch script that reads *)
(* ticket definitions and creates labels, a project, issues and "blocks"   *)
(* relations through a remote GraphQL API.                                 *)
(*                                                                         *)
(* A ticket id k stands for the JSON id "LIC-k".  Remote ids are tuples:   *)
(* <<"issue", n>> is the id the server returns for the n-th event of the   *)
(* run, <<"dry-run", k>> is the placeholder f"dry-run-{json_id}".          *)
(***************************************************************************)
EXTENDS Integers, Sequences, FiniteSets, TLC

VARIABLES
    args,         \* parsed CLI flags: dry_run, phase, skip_relations
    api_key,      \* TRUE iff LINEAR_API_KEY is set in the environment
    tickets,      \* main's `tickets` (loaded list, then the filtered list)
    pc,           \* position of the run inside main
    label_names,  \* get_or_create_labels: the list of names to resolve
    existing,     \* get_or_create_labels: lower-cased name -> label id
    label_map,    \* get_or_create_labels `result` / main's label_map
    li,           \* get_or_create_labels: index of the next name
    state_id,     \* main's state_id
    project_id,   \* main's project_id
    i,            \* create_tickets_batch: index of the next ticket
    results,      \* create_tickets_batch: list of TicketResult
    id_map,       \* create_tickets_batch: JSON id -> remote issue id
    ti,           \* create_dependency_relations: index of the current ticket
    di,           \* create_dependency_relations: index of the next dependency
    count,        \* create_dependency_relations: relations counted
    net,          \* history: requests sent (with outcome) and sleeps, in order
    out,          \* history: warnings and errors printed, in order
    outfile       \* the output file: <<>> if never written, else <<records>>

vars == <<args, api_key, tickets, pc, label_names, existing, label_map, li,
          state_id, project_id, i, results, id_map, ti, di, count, net, out,
          outfile>>

labelVars == <<label_names, existing, label_map, li>>
batchVars == <<i, results, id_map>>
relVars   == <<ti, di, count>>

-----------------------------------------------------------------------------
(* Bounds of the model *)

MaxTickets == 2     \* tickets in the input file
MaxEdges   == 2     \* dependency entries declared in the whole file
MaxLabels  == 3     \* names in a list handed to get_or_create_labels directly
MaxRelEdges == 3    \* dependency entries in a list handed to create_dependency_relations directly

(* Program constants *)

DEFAULT_STATE == "Backlog"

-----------------------------------------------------------------------------
(* Helpers *)

Range(s) == {s[k] : k \in 1..Len(s)}

SeqsUpTo(S, n) == UNION {[1..m -> S] : m \in 0..n}

Perms(S) == {s \in [1..Cardinality(S) -> S] : Range(s) = S}

EmptyMap == [x \in {} |-> x]

\* d[k] = v, as Python's dict assignment (an existing key is overwritten)
Put(d, k, v) == (k :> v) @@ d

\* d.get(k): None (here <<>>) for a key that is absent
DictGet(d, k) == IF k \in DOMAIN d THEN d[k] ELSE <<>>

Last(s) == s[Len(s)]

\* str.lower() on the label names of the model
Lower(name) ==
    CASE name = "Bug"     -> "bug"
      [] name = "BUG"     -> "bug"
      [] name = "Phase-0" -> "phase-0"
      [] OTHER            -> name

-----------------------------------------------------------------------------
(* Input domains *)

\* the label names the team may already have remotely: none, or these
RemoteLabelSets == {{}, {"BUG", "Phase-0"}}

\* every JSON id a dependency may name; an id above the number of tickets of
\* the file is a dependency on a ticket that is not in the file
JsonIds == 1..MaxTickets

\* the phase and labels of a ticket: a ticket of phase-0 without labels, or a
\* ticket without phase that carries one label
TicketKinds == {[phase |-> "phase-0", labels |-> <<>>],
                [phase |-> "",        labels |-> <<"Bug">>]}

RECURSIVE TotalLen(_, _)
TotalLen(deps, n) == IF n = 0 THEN 0 ELSE Len(deps[n]) + TotalLen(deps, n - 1)

\* the dependency lists of n tickets that declare at most maxEdges entries in
\* all; unless `any`, a ticket names only other tickets and names none twice
DepConfigs(n, maxEdges, any) ==
    {d \in [1..n -> SeqsUpTo(JsonIds, maxEdges)] :
        /\ TotalLen(d, n) <= maxEdges
        /\ any \/ \A k \in 1..n : /\ k \notin Range(d[k])
                                  /\ Cardinality(Range(d[k])) = Len(d[k])}

\* load_tickets: the ticket lists a file may hold; ids are unique, "LIC-k" at place k
TicketLists(kinds, maxEdges, any) ==
    UNION { { [k \in 1..n |-> [id           |-> k,
                               phase        |-> b[k].phase,
                               labels       |-> b[k].labels,
                               dependencies |-> d[k]]]
              : b \in [1..n -> kinds], d \in DepConfigs(n, maxEdges, any) }
            : n \in 0..MaxTickets }

\* argparse: --dry-run, --phase, --skip-relations
Args == [dry_run : BOOLEAN, phase : {"", "phase-0"}, skip_relations : BOOLEAN]

-----------------------------------------------------------------------------
(* The remote API *)

\* _graphql_request: what one call can do.  Without the credential
\* _get_api_key raises before anything is sent ("no_key"); otherwise the
\* request is sent and either returns data ("ok"), returns data whose
\* `success` is false ("no_success", mutations only) or raises (HTTP status,
\* GraphQL errors, transport: "raise").
QueryOutcomes(key) == IF key THEN {"ok", "raise"} ELSE {"no_key"}

MutationOutcomes(key) == IF key THEN {"ok", "no_success", "raise"} ELSE {"no_key"}

\* one request on the wire: the operation, its variables, what came of it and,
\* when it returned data, the part of the data the caller reads
Request(op, a, outcome, data) ==
    [kind |-> "request", op |-> op, args |-> a, outcome |-> outcome,
     data |-> IF outcome = "ok" THEN data ELSE <<>>]

\* time.sleep(RATE_LIMIT_DELAY)
Sleep == [kind |-> "sleep", op |-> "sleep", args |-> <<>>, outcome |-> "ok", data |-> <<>>]

\* _graphql_request: the request reaches the network iff the credential is set
Sent(log, op, a, outcome, data) ==
    IF outcome = "no_key" THEN log ELSE Append(log, Request(op, a, outcome, data))

MutationRaises_IgnoringSuccess(outcome) == outcome \in {"raise", "no_key"}

\* create_label, create_issue, get_or_create_project: raise unless success
MutationRaises(outcome) == outcome # "ok"

\* create_issue_relation: returns the success flag, raises only if the request does
RelationRaises(outcome) == outcome \in {"raise", "no_key"}

\* the id the server gives the object created by the next event of the run
FreshId(kind, log) == <<kind, Len(log) + 1>>

-----------------------------------------------------------------------------
(* Ticket processing *)

filter_tickets_by_phase(ts, phase) ==
    IF phase = "" THEN ts ELSE SelectSeq(ts, LAMBDA t : t.phase = phase)

collect_all_labels(ts) ==
    UNION { Range(ts[k].labels) \cup (IF ts[k].phase # "" THEN {ts[k].phase} ELSE {})
            : k \in 1..Len(ts) }

\* create_tickets_batch: ticket labels + phase, resolved through label_map
LabelIds(t, lm) ==
    LET ticket_labels == IF t.phase # "" THEN Append(t.labels, t.phase) ELSE t.labels
        present == SelectSeq(ticket_labels, LAMBDA l : l \in DOMAIN lm)
    IN  [k \in 1..Len(present) |-> lm[present[k]]]

\* create_tickets_batch, dry-run branch: the placeholder record
DryRunResult(idx, json_id) ==
    [json_id    |-> json_id,
     linear_id  |-> <<"dry-run">>,
     identifier |-> <<"DRY", idx>>,
     url        |-> <<"https://linear.app/dry-run">>]

\* create_tickets_batch, real branch: the record of a created issue
IssueResult(json_id, issue) ==
    [json_id    |-> json_id,
     linear_id  |-> issue.id,
     identifier |-> issue.identifier,
     url        |-> issue.url]

\* the `issue` object of a successful issueCreate response
IssueResponse(log) ==
    [id         |-> FreshId("issue", log),
     identifier |-> FreshId("CHE", log),
     url        |-> FreshId("url", log)]

-----------------------------------------------------------------------------
(* Initial states *)

InitLocals ==
    /\ label_names = <<>>
    /\ existing = EmptyMap
    /\ label_map = EmptyMap
    /\ li = 1
    /\ state_id = <<>>
    /\ project_id = <<>>
    /\ i = 1
    /\ results = <<>>
    /\ id_map = EmptyMap
    /\ ti = 1
    /\ di = 1
    /\ count = 0
    /\ net = <<>>
    /\ out = <<>>
    /\ outfile = <<>>

\* main, after parse_args and load_tickets
Init ==
    /\ args \in Args
    /\ api_key \in BOOLEAN
    /\ tickets \in TicketLists(TicketKinds, MaxEdges, FALSE)
    /\ pc = "start"
    /\ InitLocals

-----------------------------------------------------------------------------
(* main: filtering, label collection, dry-run placeholders *)

\* main: the remote setup (labels, states, project) runs only in a real run
RunsRemoteSetup(a) == ~a.dry_run

MainSetup ==
    /\ pc = "start"
    /\ LET filtered   == IF args.phase # ""
                         THEN filter_tickets_by_phase(tickets, args.phase)
                         ELSE tickets
           all_labels == collect_all_labels(filtered)
       IN  /\ tickets' = filtered
           /\ IF filtered = <<>>
              THEN /\ pc' = "done"
                   /\ UNCHANGED <<label_names, label_map, state_id, project_id>>
              ELSE \* list(all_labels) / enumerate(all_labels): a set has no fixed order
                   \E order \in Perms(all_labels) :
                      IF RunsRemoteSetup(args)
                      THEN /\ label_names' = order
                           /\ pc' = "labels"
                           /\ UNCHANGED <<label_map, state_id, project_id>>
                      ELSE /\ label_map' = [l \in all_labels |->
                                  <<"label", (CHOOSE k \in 1..Len(order) : order[k] = l) - 1>>]
                           /\ state_id' = <<"dry-run-state">>
                           /\ project_id' = <<"dry-run-project">>
                           /\ pc' = "batch"
                           /\ UNCHANGED label_names
    /\ UNCHANGED <<args, api_key, existing, li, batchVars, relVars, net, out, outfile>>

-----------------------------------------------------------------------------
(* get_or_create_labels *)

\* the loop over label_names ends and the function returns to main
LabelPc(idx, names) == IF idx > Len(names) THEN "states" ELSE "label_loop"

LabelKnown_CaseSensitive(name, ex) == name \in DOMAIN ex

\* `name_lower in existing`
LabelKnown(name, ex) == Lower(name) \in DOMAIN ex

\* the query for the team's labels and the `existing` dict built from it
FetchLabels ==
    /\ pc = "labels"
    /\ \E o \in QueryOutcomes(api_key), names \in RemoteLabelSets :
          /\ net' = Sent(net, "labels", <<>>, o, names)
          /\ IF o = "ok"
             THEN /\ existing' = [l \in {Lower(x) : x \in names} |->
                                    <<"remote-label", CHOOSE x \in names : Lower(x) = l>>]
                  /\ label_map' = EmptyMap
                  /\ li' = 1
                  /\ pc' = LabelPc(1, label_names)
             ELSE /\ pc' = "crashed"
                  /\ UNCHANGED <<existing, label_map, li>>
    /\ UNCHANGED <<args, api_key, tickets, label_names, state_id, project_id,
                   batchVars, relVars, out, outfile>>

\* one iteration of the loop for a name that is already known
LabelExisting ==
    /\ pc = "label_loop"
    /\ li <= Len(label_names)
    /\ LabelKnown(label_names[li], existing)
    /\ label_map' = Put(label_map, label_names[li], existing[Lower(label_names[li])])
    /\ li' = li + 1
    /\ pc' = LabelPc(li + 1, label_names)
    /\ UNCHANGED <<args, api_key, tickets, label_names, existing, state_id, project_id,
                   batchVars, relVars, net, out, outfile>>

\* one iteration of the loop for an unknown name: create_label, then the delay
LabelCreate ==
    /\ pc = "label_loop"
    /\ li <= Len(label_names)
    /\ ~LabelKnown(label_names[li], existing)
    /\ \E o \in MutationOutcomes(api_key) :
          LET name     == label_names[li]
              label_id == FreshId("label", net)
          IN  IF MutationRaises(o)
              THEN \* create_label raises; neither the loop nor main catches it
                   /\ net' = Sent(net, "label_create", <<name>>, o, label_id)
                   /\ pc' = "crashed"
                   /\ UNCHANGED <<existing, label_map, li>>
              ELSE /\ net' = Append(Sent(net, "label_create", <<name>>, o, label_id), Sleep)
                   /\ label_map' = Put(label_map, name, label_id)
                   /\ existing' = Put(existing, Lower(name), label_id)
                   /\ li' = li + 1
                   /\ pc' = LabelPc(li + 1, label_names)
    /\ UNCHANGED <<args, api_key, tickets, label_names, state_id, project_id,
                   batchVars, relVars, out, outfile>>

-----------------------------------------------------------------------------
(* get_workflow_states, get_or_create_project *)

\* the workflow states a team may have
StateSets == {{"Backlog", "Todo"}, {"Todo"}}

StateMissing_Never(sid) == FALSE

\* main: `if not state_id` after state_id = states.get(DEFAULT_STATE)
StateMissing(sid) == sid = <<>>

GetWorkflowStates ==
    /\ pc = "states"
    /\ \E o \in QueryOutcomes(api_key), names \in StateSets :
          LET states == [n \in names |-> <<"state", n>>]
          IN  /\ net' = Sent(net, "states", <<>>, o, names)
              /\ IF o # "ok"
                 THEN /\ pc' = "crashed"
                      /\ UNCHANGED <<state_id, out>>
                 ELSE /\ state_id' = DictGet(states, DEFAULT_STATE)
                      /\ IF StateMissing(DictGet(states, DEFAULT_STATE))
                         THEN /\ out' = Append(out, [kind |-> "error", what |-> "state",
                                                     of |-> <<>>])
                              /\ pc' = "done"
                         ELSE /\ pc' = "project"
                              /\ UNCHANGED out
    /\ UNCHANGED <<args, api_key, tickets, labelVars, project_id, batchVars, relVars,
                   outfile>>

\* get_or_create_project: the query and the search for the project by name
GetProject ==
    /\ pc = "project"
    /\ \E o \in QueryOutcomes(api_key), found \in BOOLEAN :
          /\ net' = Sent(net, "projects", <<>>, o, found)
          /\ IF o # "ok"
             THEN pc' = "crashed" /\ UNCHANGED project_id
             ELSE IF found
             THEN pc' = "batch" /\ project_id' = <<"project", 0>>
             ELSE pc' = "project_create" /\ UNCHANGED project_id
    /\ UNCHANGED <<args, api_key, tickets, labelVars, state_id, batchVars, relVars,
                   out, outfile>>

\* get_or_create_project: the projectCreate mutation (no delay follows it)
CreateProject ==
    /\ pc = "project_create"
    /\ \E o \in MutationOutcomes(api_key) :
          /\ net' = Sent(net, "project_create", <<>>, o, FreshId("project", net))
          /\ IF MutationRaises(o)
             THEN pc' = "crashed" /\ UNCHANGED project_id
             ELSE pc' = "batch" /\ project_id' = FreshId("project", net)
    /\ UNCHANGED <<args, api_key, tickets, labelVars, state_id, batchVars, relVars,
                   out, outfile>>

-----------------------------------------------------------------------------
(* create_tickets_batch *)

BatchIsDry_Never(a) == FALSE

\* `if dry_run:` inside the loop
BatchIsDry(a) == a.dry_run

IssueFailed_OnlyOnRaise(o) == o \in {"raise", "no_key"}

\* create_issue raised: the except branch of the loop is taken
IssueFailed(o) == MutationRaises(o)

BatchNext_BreakOnFailure(idx, o) == IF o = "ok" THEN idx + 1 ELSE Len(tickets) + 1

\* the index of the next iteration, after a created issue as after `continue`
BatchNext(idx, o) == idx + 1

\* one iteration of the loop over the filtered tickets
BatchStep ==
    /\ pc = "batch"
    /\ i <= Len(tickets)
    /\ LET ticket    == tickets[i]
           json_id   == ticket.id
           label_ids == LabelIds(ticket, label_map)
       IN  IF BatchIsDry(args)
           THEN /\ results' = Append(results, DryRunResult(i, json_id))
                /\ id_map' = Put(id_map, json_id, <<"dry-run", json_id>>)
                /\ i' = i + 1
                /\ UNCHANGED <<net, out>>
           ELSE \E o \in MutationOutcomes(api_key) :
                   LET issue == IssueResponse(net)
                       sent  == Sent(net, "issue_create",
                                     <<json_id, label_ids, state_id, project_id>>, o, issue)
                   IN  /\ i' = BatchNext(i, o)
                       /\ IF IssueFailed(o)
                          THEN /\ net' = sent
                               /\ out' = Append(out, [kind |-> "error", what |-> "issue",
                                                      of |-> <<json_id>>])
                               /\ UNCHANGED <<results, id_map>>
                          ELSE /\ results' = Append(results, IssueResult(json_id, issue))
                               /\ id_map' = Put(id_map, json_id, issue.id)
                               /\ net' = Append(sent, Sleep)
                               /\ UNCHANGED out
    /\ UNCHANGED <<args, api_key, tickets, pc, labelVars, state_id, project_id, relVars,
                   outfile>>

\* the loop is over: back in main, `if not args.skip_relations`
BatchReturn ==
    /\ pc = "batch"
    /\ i > Len(tickets)
    /\ pc' = IF args.skip_relations THEN "save" ELSE "relations"
    /\ UNCHANGED <<args, api_key, tickets, labelVars, state_id, project_id, batchVars,
                   relVars, net, out, outfile>>

-----------------------------------------------------------------------------
(* create_dependency_relations *)

TicketSkipped_OnlyWithoutDeps(t, m) == t.dependencies = <<>>

\* the two `continue`s at the head of the outer loop
TicketSkipped(t, m) == t.dependencies = <<>> \/ t.id \notin DOMAIN m

\* `if dep_id not in id_map`
DepMissing(dep_id, m) == dep_id \notin DOMAIN m

RelationArgs_Swapped(blocking_issue_id, issue_id) ==
    [issueId |-> issue_id, relatedIssueId |-> blocking_issue_id, type |-> "blocks"]

\* create_issue_relation(blocking_issue_id, issue_id, "blocks")
RelationArgs(blocking_issue_id, issue_id) ==
    [issueId |-> blocking_issue_id, relatedIssueId |-> issue_id, type |-> "blocks"]

\* the position after dependency d of ticket t: <<ti, di>>
NextEdge(t, d) ==
    IF d + 1 > Len(tickets[t].dependencies) THEN <<t + 1, 1>> ELSE <<t, d + 1>>

InRelations ==
    /\ pc = "relations"
    /\ ti <= Len(tickets)

AtEdge ==
    /\ InRelations
    /\ ~TicketSkipped(tickets[ti], id_map)
    /\ di <= Len(tickets[ti].dependencies)

\* a ticket without dependencies, or one that is not in the id map
RelSkipTicket ==
    /\ InRelations
    /\ TicketSkipped(tickets[ti], id_map)
    /\ ti' = ti + 1
    /\ di' = 1
    /\ UNCHANGED <<args, api_key, tickets, pc, labelVars, state_id, project_id, batchVars,
                   count, net, out, outfile>>

\* a dependency that is not in the id map: warning, next dependency
RelWarn ==
    /\ AtEdge
    /\ DepMissing(tickets[ti].dependencies[di], id_map)
    /\ out' = Append(out, [kind |-> "warning", what |-> "dependency",
                           of |-> <<tickets[ti].dependencies[di], tickets[ti].id>>])
    /\ ti' = NextEdge(ti, di)[1]
    /\ di' = NextEdge(ti, di)[2]
    /\ UNCHANGED <<args, api_key, tickets, pc, labelVars, state_id, project_id, batchVars,
                   count, net, outfile>>

\* dry run: the relation is only printed
RelDry ==
    /\ AtEdge
    /\ ~DepMissing(tickets[ti].dependencies[di], id_map)
    /\ args.dry_run
    /\ ti' = NextEdge(ti, di)[1]
    /\ di' = NextEdge(ti, di)[2]
    /\ UNCHANGED <<args, api_key, tickets, pc, labelVars, state_id, project_id, batchVars,
                   count, net, out, outfile>>

\* real run: create_issue_relation inside try/except, count, delay
RelCreate ==
    /\ AtEdge
    /\ ~DepMissing(tickets[ti].dependencies[di], id_map)
    /\ ~args.dry_run
    /\ \E o \in MutationOutcomes(api_key) :
          \* id_map[dep_id] and id_map[json_id]: both keys were checked above
          LET json_id == tickets[ti].id
              dep_id  == tickets[ti].dependencies[di]
              sent    == Sent(net, "relation_create",
                              RelationArgs(DictGet(id_map, dep_id), DictGet(id_map, json_id)),
                              o, o = "ok")
          IN  IF RelationRaises(o)
              THEN /\ net' = sent
                   /\ out' = Append(out, [kind |-> "error", what |-> "relation",
                                          of |-> <<dep_id, json_id>>])
                   /\ UNCHANGED count
              ELSE /\ count' = count + 1
                   /\ net' = Append(sent, Sleep)
                   /\ UNCHANGED out
    /\ ti' = NextEdge(ti, di)[1]
    /\ di' = NextEdge(ti, di)[2]
    /\ UNCHANGED <<args, api_key, tickets, pc, labelVars, state_id, project_id, batchVars,
                   outfile>>

\* the outer loop is over: `return count`
RelReturn ==
    /\ pc = "relations"
    /\ ti > Len(tickets)
    /\ pc' = "save"
    /\ UNCHANGED <<args, api_key, tickets, labelVars, state_id, project_id, batchVars,
                   relVars, net, out, outfile>>

-----------------------------------------------------------------------------
(* save_results and the end of main *)

WritesFile_Always(a) == TRUE

\* main: `if not args.dry_run: save_results(results, args.output)`
WritesFile(a) == ~a.dry_run

Save ==
    /\ pc = "save"
    /\ outfile' = IF WritesFile(args) THEN <<results>> ELSE outfile
    /\ pc' = "done"
    /\ UNCHANGED <<args, api_key, tickets, labelVars, state_id, project_id, batchVars,
                   relVars, net, out>>

-----------------------------------------------------------------------------
(* Specifications *)

Next ==
    \/ MainSetup
    \/ FetchLabels
    \/ LabelExisting
    \/ LabelCreate
    \/ GetWorkflowStates
    \/ GetProject
    \/ CreateProject
    \/ BatchStep
    \/ BatchReturn
    \/ RelSkipTicket
    \/ RelWarn
    \/ RelDry
    \/ RelCreate
    \/ RelReturn
    \/ Save

\* a whole run of main
Spec == Init /\ [][Next]_vars

\* create_dependency_relations called on its own: any ticket list, any id map
\* (its keys may name tickets that are not in the list), dry or real, with or
\* without the credential
InitRel ==
    /\ args \in [dry_run : BOOLEAN, phase : {""}, skip_relations : {FALSE}]
    /\ api_key \in BOOLEAN
    /\ tickets \in TicketLists({[phase |-> "", labels |-> <<>>]}, MaxRelEdges, TRUE)
    /\ pc = "relations"
    /\ label_names = <<>>
    /\ existing = EmptyMap
    /\ label_map = EmptyMap
    /\ li = 1
    /\ state_id = <<>>
    /\ project_id = <<>>
    /\ i = 1
    /\ results = <<>>
    /\ id_map \in {[k \in S |-> <<"issue", k>>] : S \in SUBSET JsonIds}
    /\ ti = 1
    /\ di = 1
    /\ count = 0
    /\ net = <<>>
    /\ out = <<>>
    /\ outfile = <<>>

NextRel ==
    \/ RelSkipTicket
    \/ RelWarn
    \/ RelDry
    \/ RelCreate
    \/ RelReturn

SpecRel == InitRel /\ [][NextRel]_vars

\* the names a list handed to get_or_create_labels may hold
LabelNames == {"Bug", "bug", "phase-0"}

\* get_or_create_labels called on its own: any list of names, repeats included
InitLabels ==
    /\ args \in [dry_run : {FALSE}, phase : {""}, skip_relations : {FALSE}]
    /\ api_key \in BOOLEAN
    /\ tickets = <<>>
    /\ pc = "labels"
    /\ label_names \in SeqsUpTo(LabelNames, MaxLabels)
    /\ existing = EmptyMap
    /\ label_map = EmptyMap
    /\ li = 1
    /\ state_id = <<>>
    /\ project_id = <<>>
    /\ i = 1
    /\ results = <<>>
    /\ id_map = EmptyMap
    /\ ti = 1
    /\ di = 1
    /\ count = 0
    /\ net = <<>>
    /\ out = <<>>
    /\ outfile = <<>>

NextLabels ==
    \/ FetchLabels
    \/ LabelExisting
    \/ LabelCreate

SpecLabels == InitLabels /\ [][NextLabels]_vars

-----------------------------------------------------------------------------
(* Reading the histories *)

IsRequest(e, op) == e.kind = "request" /\ e.op = op

RequestsOf(op) == SelectSeq(net, LAMBDA e : IsRequest(e, op))

IsPrefix(a, b) == Len(a) <= Len(b) /\ \A k \in 1..Len(a) : a[k] = b[k]

MutatingOps == {"label_create", "project_create", "issue_create", "relation_create"}

\* the declared dependency entries <<ticket id, dependency id>>, in ticket
\* order then dependency order
RECURSIVE AllEdges(_)
AllEdges(ts) ==
    IF ts = <<>> THEN <<>>
    ELSE [j \in 1..Len(Head(ts).dependencies) |-> <<Head(ts).id, Head(ts).dependencies[j]>>]
         \o AllEdges(Tail(ts))

\* create_tickets_batch has returned to main (tickets was not empty)
BatchOver == pc \in {"relations", "save"} \/ (pc = "done" /\ i > 1)

-----------------------------------------------------------------------------
(* C1 *)

\* C1: in a dry run nothing is ever sent to the network (no sleep is taken
\* either), and create_tickets_batch builds exactly one placeholder record per
\* ticket of the filtered list, in the order of the list.
C1_DryRunSendsNothing ==
    args.dry_run =>
        /\ net = <<>>
        /\ Len(results) = i - 1
        /\ \A k \in 1..Len(results) :
              results[k] = [json_id    |-> tickets[k].id,
                            linear_id  |-> <<"dry-run">>,
                            identifier |-> <<"DRY", k>>,
                            url        |-> <<"https://linear.app/dry-run">>]
        /\ (pc \in {"relations", "save", "done"}) => Len(results) = Len(tickets)

\* a finished dry run over two tickets whose relation pass had an edge to print
C1_Witness ==
    /\ args.dry_run
    /\ pc = "done"
    /\ Len(results) = 2
    /\ ~args.skip_relations
    /\ tickets[2].dependencies = <<1>>

-----------------------------------------------------------------------------
(* C2 *)

\* C2: every relation request names, as blocker and as blocked issue, the ids
\* returned by two successful issue-create responses earlier in the same run,
\* and they are the responses for a dependency and for the ticket of the
\* filtered list that declares it.
C2_RelationsLinkCreatedIssues ==
    \A k \in 1..Len(net) :
        IsRequest(net[k], "relation_create") =>
            \E b, t \in {j \in 1..(k - 1) : IsRequest(net[j], "issue_create")
                                            /\ net[j].outcome = "ok"} :
                /\ net[k].args.issueId = net[b].data.id
                /\ net[k].args.relatedIssueId = net[t].data.id
                /\ \E x \in 1..Len(tickets) :
                      /\ tickets[x].id = net[t].args[1]
                      /\ net[b].args[1] \in Range(tickets[x].dependencies)

\* a real run that has sent a relation request between two created issues
C2_Witness ==
    /\ ~args.dry_run
    /\ pc = "done"
    /\ RequestsOf("relation_create") # <<>>
    /\ Len(RequestsOf("issue_create")) = 2

-----------------------------------------------------------------------------
(* C3 *)

\* the relation requests expected for the ticket list and the id map
ExpectedRelations ==
    LET linked == SelectSeq(AllEdges(tickets),
                            LAMBDA e : e[1] \in DOMAIN id_map /\ e[2] \in DOMAIN id_map)
    IN  [k \in 1..Len(linked) |->
            [issueId |-> id_map[linked[k][2]], relatedIssueId |-> id_map[linked[k][1]],
             type |-> "blocks"]]

SentRelations ==
    LET sent == RequestsOf("relation_create") IN [k \in 1..Len(sent) |-> sent[k].args]

\* C3: in a real call with the credential set, the relation requests sent so far
\* are the first of the expected ones (one per dependency entry with both ends in
\* the id map, blocker = id_map[d], blocked = id_map[t], in ticket order then
\* dependency order), and when the function returns they are all of them,
\* whatever edges were skipped and whatever requests failed.
C3_OneRequestPerLinkedEdge ==
    (api_key /\ ~args.dry_run) =>
        /\ IsPrefix(SentRelations, ExpectedRelations)
        /\ pc = "save" => SentRelations = ExpectedRelations

\* the function returned after a skipped edge, a request that raised and a
\* later request
C3_Witness ==
    /\ api_key /\ ~args.dry_run
    /\ pc = "save"
    /\ tickets # <<>>
    /\ tickets[1].id \in DOMAIN id_map
    /\ tickets[1].dependencies # <<>>
    /\ tickets[1].dependencies[1] \notin DOMAIN id_map
    /\ Len(SentRelations) = 2
    /\ net[1].outcome = "raise"

-----------------------------------------------------------------------------
(* C4 *)

\* C4: in a real run the issue-create requests sent so far are one per ticket
\* handled so far, in list order; when the batch is over every ticket of the
\* filtered list has had exactly one; results and the id map hold exactly the
\* tickets whose request succeeded, and each failure printed one error.
C4_OneCreatePerTicket ==
    ~args.dry_run =>
        LET reqs   == RequestsOf("issue_create")
            okReqs == SelectSeq(reqs, LAMBDA e : e.outcome = "ok")
            failed == SelectSeq(reqs, LAMBDA e : e.outcome # "ok")
            errors == SelectSeq(out, LAMBDA e : e.kind = "error" /\ e.what = "issue")
        IN  /\ Len(reqs) = i - 1
            /\ \A k \in 1..Len(reqs) : reqs[k].args[1] = tickets[k].id
            /\ BatchOver => Len(reqs) = Len(tickets)
            /\ Len(results) = Len(okReqs)
            /\ \A k \in 1..Len(okReqs) :
                  /\ results[k].json_id = okReqs[k].args[1]
                  /\ results[k].linear_id = okReqs[k].data.id
            /\ DOMAIN id_map = {okReqs[k].args[1] : k \in 1..Len(okReqs)}
            /\ \A k \in 1..Len(okReqs) : id_map[okReqs[k].args[1]] = okReqs[k].data.id
            /\ Len(errors) = Len(failed)
            /\ \A k \in 1..Len(failed) : errors[k].of = <<failed[k].args[1]>>

\* the batch is over, the first ticket failed and the second was created
C4_Witness ==
    /\ ~args.dry_run
    /\ pc = "save"
    /\ Len(tickets) = 2
    /\ Len(RequestsOf("issue_create")) = 2
    /\ RequestsOf("issue_create")[1].outcome # "ok"
    /\ RequestsOf("issue_create")[2].outcome = "ok"

-----------------------------------------------------------------------------
(* C5 *)

LabelCreateFailed(e) == IsRequest(e, "label_create") /\ e.outcome # "ok"

\* C5 as stated: after a create-label request that failed the run goes on (it
\* has not ended on the uncaught exception), so that the remaining labels and
\* the tickets are still handled.
C5_LabelFailureIsSkipped ==
    (\E k \in 1..Len(net) : LabelCreateFailed(net[k])) => pc # "crashed"

\* C5 amended: a create-label request that fails ends the run on the spot: it is
\* the last event of the run, the name it was for and the names after it are not
\* in the label map, no ticket is handled and no output file is written.
C5_LabelFailureAbortsRun ==
    \A k \in 1..Len(net) :
        LabelCreateFailed(net[k]) =>
            /\ k = Len(net)
            /\ pc = "crashed"
            /\ li <= Len(label_names)
            /\ net[k].args = <<label_names[li]>>
            /\ \A j \in li..Len(label_names) : label_names[j] \notin DOMAIN label_map
            /\ i = 1
            /\ results = <<>>
            /\ outfile = <<>>

\* the first of two labels could not be created: the second is never resolved
C5_Witness ==
    /\ pc = "crashed"
    /\ net # <<>>
    /\ LabelCreateFailed(Last(net))
    /\ Len(label_names) = 2
    /\ li = 1
    /\ Len(tickets) = 2

-----------------------------------------------------------------------------
(* C6 *)

Warnings == SelectSeq(out, LAMBDA e : e.kind = "warning")

\* the dependency entries with an end that is not in the id map
EdgeSkipped(e) == e[1] \notin DOMAIN id_map \/ e[2] \notin DOMAIN id_map

\* C6 as stated: when create_dependency_relations returns, every dependency
\* entry that was skipped for an absent endpoint (blocker or blocked) has been
\* reported by a warning.
C6_EverySkippedEdgeWarned ==
    (pc = "save" /\ ~args.skip_relations) =>
        LET skipped == SelectSeq(AllEdges(tickets), EdgeSkipped)
        IN  [k \in 1..Len(Warnings) |-> Warnings[k].of]
              = [k \in 1..Len(skipped) |-> <<skipped[k][2], skipped[k][1]>>]

\* C6 amended: a warning is reported exactly for the dependency entries whose
\* blocker is absent from the id map while the declaring (blocked) ticket is in
\* it, in ticket order then dependency order; the entries of a ticket that is
\* itself absent from the id map are skipped without any warning.
C6_WarningOnlyForMissingBlocker ==
    LET warned == SelectSeq(AllEdges(tickets),
                            LAMBDA e : e[1] \in DOMAIN id_map /\ e[2] \notin DOMAIN id_map)
        expect == [k \in 1..Len(warned) |-> <<warned[k][2], warned[k][1]>>]
        got    == [k \in 1..Len(Warnings) |-> Warnings[k].of]
    IN  /\ IsPrefix(got, expect)
        /\ (pc = "save" /\ ~args.skip_relations) => got = expect

\* the function returned after one entry skipped with a warning (blocker absent)
\* and one skipped silently (blocked ticket absent)
C6_Witness ==
    /\ pc = "save"
    /\ ~args.skip_relations
    /\ Len(Warnings) = 1
    /\ \E k \in 1..Len(tickets) :
          /\ tickets[k].id \notin DOMAIN id_map
          /\ tickets[k].dependencies # <<>>
          /\ tickets[k].dependencies[1] \in DOMAIN id_map

-----------------------------------------------------------------------------
(* C7 *)

\* C7: in a real run every mutating request, failed or not, that is followed by
\* another event of the run is followed by the rate-limit delay.
C7_DelayAfterEveryMutation ==
    \A k \in 1..(Len(net) - 1) :
        (net[k].kind = "request" /\ net[k].op \in MutatingOps) => net[k + 1].kind = "sleep"

-----------------------------------------------------------------------------
(* C8 *)

\* the records of the issues the server created, in creation order
CreatedRecords ==
    LET okReqs == SelectSeq(RequestsOf("issue_create"), LAMBDA e : e.outcome = "ok")
    IN  [k \in 1..Len(okReqs) |->
            [json_id    |-> okReqs[k].args[1],
             linear_id  |-> okReqs[k].data.id,
             identifier |-> okReqs[k].data.identifier,
             url        |-> okReqs[k].data.url]]

\* C8 as stated: a finished run that handled at least one ticket has written the
\* output file, with the records of the run (the placeholders in a dry run).
C8_EveryRunWritesFile ==
    (pc = "done" /\ i > 1) => outfile = <<results>>

\* C8 amended: a real run that handled at least one ticket has, when it ends,
\* written the output file with exactly one record per issue the server created,
\* in creation order (an empty array if every creation failed); a dry run never
\* writes the file, and no run writes it before its end.
C8_RealRunWritesCreatedRecords ==
    /\ args.dry_run => outfile = <<>>
    /\ outfile # <<>> => pc = "done"
    /\ (pc = "done" /\ ~args.dry_run /\ i > 1) => outfile = <<CreatedRecords>>

\* a finished real run over two tickets that wrote the one record it created
C8_Witness ==
    /\ pc = "done"
    /\ ~args.dry_run
    /\ Len(tickets) = 2
    /\ outfile # <<>>
    /\ Len(outfile[1]) = 1
    /\ outfile[1][1].json_id = 2

-----------------------------------------------------------------------------
(* C9 *)

\* the label names the query returned
FetchedNames ==
    IF net # <<>> /\ IsRequest(net[1], "labels") /\ net[1].outcome = "ok"
    THEN net[1].data ELSE {}

\* C9: no two create-label requests are for names that are equal up to case, no
\* create-label request is for a name that, up to case, the query returned, and
\* when get_or_create_labels returns, the keys of its map are exactly the
\* requested names as given.
C9_OneCreatePerDistinctName ==
    LET creates == RequestsOf("label_create")
    IN  /\ \A a, b \in 1..Len(creates) :
              Lower(creates[a].args[1]) = Lower(creates[b].args[1]) => a = b
        /\ \A a \in 1..Len(creates) :
              Lower(creates[a].args[1]) \notin {Lower(x) : x \in FetchedNames}
        /\ pc = "states" => DOMAIN label_map = Range(label_names)

\* the function returned a map for "Bug", "bug", "phase-0" after two creates
C9_Witness ==
    /\ pc = "states"
    /\ label_names = <<"Bug", "bug", "phase-0">>
    /\ FetchedNames = {}
    /\ Len(RequestsOf("label_create")) = 2

-----------------------------------------------------------------------------
(* C10 *)

StatesWithoutDefault(e) ==
    IsRequest(e, "states") /\ e.outcome = "ok" /\ DEFAULT_STATE \notin e.data

\* C10: a real run without the credential sends nothing, handles no ticket and
\* writes no file: it ends at its first request; and a real run whose team has
\* no "Backlog" state ends at the states query with an error message: that query
\* is its last request, no ticket is handled and no file is written.
C10_FatalConfigurationAborts ==
    /\ (~args.dry_run /\ ~api_key) =>
          /\ net = <<>>
          /\ results = <<>>
          /\ outfile = <<>>
          /\ pc \in {"start", "labels", "crashed", "done"}
          /\ pc = "done" => tickets = <<>>
    /\ \A k \in 1..Len(net) :
          StatesWithoutDefault(net[k]) =>
              /\ k = Len(net)
              /\ pc = "done"
              /\ out # <<>> /\ Last(out).what = "state"
              /\ i = 1
              /\ results = <<>>
              /\ outfile = <<>>

\* a real run that created a label and then found no "Backlog" state
C10_Witness ==
    /\ pc = "done"
    /\ net # <<>>
    /\ StatesWithoutDefault(Last(net))
    /\ RequestsOf("label_create") # <<>>
    /\ Len(tickets) = 2

-----------------------------------------------------------------------------
(* C11 *)

\* C11: when create_dependency_relations has returned in a real run, the number
\* it returned is the number of relation requests the server answered with
\* success; every other relation request (success false, or an exception) was
\* reported as an error and not counted.
C11_CountIsRelationsCreated ==
    (pc \in {"save", "done"} /\ ~args.dry_run /\ ~args.skip_relations) =>
        LET reqs    == RequestsOf("relation_create")
            created == SelectSeq(reqs, LAMBDA e : e.outcome = "ok")
            errors  == SelectSeq(out, LAMBDA e : e.kind = "error" /\ e.what = "relation")
        IN  /\ count = Len(created)
            /\ Len(errors) = Len(reqs) - Len(created)

====
